---- MODULE Spec2Model ----
(***************************************************************************)
(* Model of hytera_homebrew_bridge/lib/snmp.py: the SNMP class, its OID    *)
(* catalog, the coroutine walk_ip (sequential fetch loop, decoding,        *)
(* community fallback, commit into settings_storage.hytera_snmp_data) and  *)
(* print_snmp_data.                                                        *)
(*                                                                         *)
(* Representation of Python values:                                        *)
(*   - a str OID "iso.3.6.1" is the record of its first part and the rest, *)
(*     [root |-> "iso", arcs |-> "3.6.1"]; the rest holds digits and dots; *)
(*   - an int n is <<"int", n>>, a bytes object is <<"bytes", b1, ..>>,    *)
(*     a str is <<"str", c1, ..>> (code points);                           *)
(*   - a dict is the sequence of its <<key, value>> items in insertion     *)
(*     order.                                                              *)
(* One atomic action is one run of the coroutine between two suspension    *)
(* points: the only suspension point of walk_ip is the awaited fetch       *)
(* (awaiting the nested walk_ip runs it synchronously up to its own first  *)
(* fetch).                                                                 *)
(***************************************************************************)
EXTENDS Integers, Sequences, FiniteSets, TLC

(* ------------------------------ bounds --------------------------------- *)

\* number of distinct readings the modelled device can be in
MaxReadings == 2

\* length of the stores the reporter is applied to on its own
MaxStoreLen == 3

\* the last position of the catalog at which a fetch of two interleaved
\* walks fails
MaxFailIdx == 1

(* --------------------------- python helpers ---------------------------- *)

PyInt(n) == <<"int", n>>

PyBytes(b) == <<"bytes">> \o b

PyStr(c) == <<"str">> \o c

PyType(v) == v[1]

PyBody(v) == Tail(v)

\* x in t, for a tuple t
InTuple(x, t) == \E i \in DOMAIN t : t[i] = x

\* k in d, for a dict d
DictHas(d, k) == \E i \in DOMAIN d : d[i][1] = k

\* d.get(k) for a key that is present
DictGet(d, k) == d[CHOOSE i \in DOMAIN d : d[i][1] = k][2]

\* d[k] = v : an existing key keeps its position, a new key is appended
DictSet(d, k, v) ==
  IF DictHas(d, k)
    THEN [i \in DOMAIN d |-> IF d[i][1] = k THEN <<k, v>> ELSE d[i]]
    ELSE Append(d, <<k, v>>)

DictKeys(d) == [i \in DOMAIN d |-> d[i][1]]

(* ------------------------------ constants ------------------------------ *)

DEFAULT_SNMP_COMMUNITY == "public"

KNOWN_SNMP_COMMUNITIES == {"hytera", "public"}

\* default of the parameter timeout_secs of walk_ip
DEFAULT_TIMEOUT_SECS == 2

OID_PSU_VOLTAGE == [root |-> "iso", arcs |-> "3.6.1.4.1.40297.1.2.1.2.1.0"]

OID_PA_TEMPERATURE == [root |-> "iso", arcs |-> "3.6.1.4.1.40297.1.2.1.2.2.0"]

OID_VSWR == [root |-> "iso", arcs |-> "3.6.1.4.1.40297.1.2.1.2.4.0"]

OID_TX_FWD_POWER == [root |-> "iso", arcs |-> "3.6.1.4.1.40297.1.2.1.2.5.0"]

OID_TX_REF_POWER == [root |-> "iso", arcs |-> "3.6.1.4.1.40297.1.2.1.2.6.0"]

OID_RSSI_TS1 == [root |-> "iso", arcs |-> "3.6.1.4.1.40297.1.2.1.2.9.0"]

OID_RSSI_TS2 == [root |-> "iso", arcs |-> "3.6.1.4.1.40297.1.2.1.2.10.0"]

OID_REPEATER_MODEL == [root |-> "iso", arcs |-> "3.6.1.4.1.40297.1.2.4.1.0"]

OID_MODEL_NUMBER == [root |-> "iso", arcs |-> "3.6.1.4.1.40297.1.2.4.2.0"]

OID_FIRMWARE_VERSION == [root |-> "iso", arcs |-> "3.6.1.4.1.40297.1.2.4.3.0"]

OID_RCDB_VERSION == [root |-> "iso", arcs |-> "3.6.1.4.1.40297.1.2.4.4.0"]

OID_SERIAL_NUMBER == [root |-> "iso", arcs |-> "3.6.1.4.1.40297.1.2.4.5.0"]

OID_RADIO_ALIAS == [root |-> "iso", arcs |-> "3.6.1.4.1.40297.1.2.4.6.0"]

OID_RADIO_ID == [root |-> "iso", arcs |-> "3.6.1.4.1.40297.1.2.4.7.0"]

OID_CUR_CHANNEL_MODE == [root |-> "iso", arcs |-> "3.6.1.4.1.40297.1.2.4.8.0"]

OID_CUR_CHANNEL_NAME == [root |-> "iso", arcs |-> "3.6.1.4.1.40297.1.2.4.9.0"]

OID_TX_FREQUENCE == [root |-> "iso", arcs |-> "3.6.1.4.1.40297.1.2.4.10.0"]

OID_RX_FREQUENCE == [root |-> "iso", arcs |-> "3.6.1.4.1.40297.1.2.4.11.0"]

OID_WORK_STATUS == [root |-> "iso", arcs |-> "3.6.1.4.1.40297.1.2.4.12.0"]

OID_CUR_ZONE_ALIAS == [root |-> "iso", arcs |-> "3.6.1.4.1.40297.1.2.4.13.0"]

\* the dict READABLE_LABELS, in source order; len is len(label); the degree
\* sign of the PA temperature format is written (deg)
READABLE_LABELS == <<
  <<OID_PSU_VOLTAGE, [label |-> "PSU Voltage", len |-> 11, fmt |-> "%d mV"]>>,
  <<OID_PA_TEMPERATURE, [label |-> "PA Temperature", len |-> 14, fmt |-> "%d m(deg)C"]>>,
  <<OID_VSWR, [label |-> "VSWR", len |-> 4, fmt |-> "%d dB"]>>,
  <<OID_TX_FWD_POWER, [label |-> "TX Forward Power", len |-> 16, fmt |-> "%d mW"]>>,
  <<OID_TX_REF_POWER, [label |-> "TX Reflected Power", len |-> 18, fmt |-> "%d mW"]>>,
  <<OID_RSSI_TS1, [label |-> "RSSI TS1", len |-> 8, fmt |-> "%d dB"]>>,
  <<OID_RSSI_TS2, [label |-> "RSSI TS2", len |-> 8, fmt |-> "%d dB"]>>,
  <<OID_REPEATER_MODEL, [label |-> "Repeater Model", len |-> 14, fmt |-> "%s"]>>,
  <<OID_MODEL_NUMBER, [label |-> "Repeater Model Identification", len |-> 29, fmt |-> "%s"]>>,
  <<OID_FIRMWARE_VERSION, [label |-> "Repeater Firmware", len |-> 17, fmt |-> "%s"]>>,
  <<OID_RCDB_VERSION, [label |-> "Repeater Radio Data (RCDB)", len |-> 26, fmt |-> "%s"]>>,
  <<OID_SERIAL_NUMBER, [label |-> "Repeater Serial No.", len |-> 19, fmt |-> "%s"]>>,
  <<OID_RADIO_ALIAS, [label |-> "Radio Alias (Callsign)", len |-> 22, fmt |-> "%s"]>>,
  <<OID_RADIO_ID, [label |-> "Repeater ID", len |-> 11, fmt |-> "%d"]>>,
  <<OID_CUR_CHANNEL_NAME, [label |-> "Current Channel Name", len |-> 20, fmt |-> "%s"]>>,
  <<OID_CUR_CHANNEL_MODE, [label |-> "Current Channel Zone (0=DIGITAL, 1=ANALOG, 2=MIXED)", len |-> 51, fmt |-> "%d"]>>,
  <<OID_TX_FREQUENCE, [label |-> "TX Frequence", len |-> 12, fmt |-> "%d Hz"]>>,
  <<OID_RX_FREQUENCE, [label |-> "RX Frequence", len |-> 12, fmt |-> "%d Hz"]>>,
  <<OID_WORK_STATUS, [label |-> "Work Status (0=RECEIVE, 1=TRANSMIT)", len |-> 35, fmt |-> "%d"]>>,
  <<OID_CUR_ZONE_ALIAS, [label |-> "Current Zone Alias", len |-> 18, fmt |-> "%s"]>> >>

ALL_STRINGS == <<
  OID_REPEATER_MODEL, OID_MODEL_NUMBER, OID_FIRMWARE_VERSION, OID_RCDB_VERSION,
  OID_RADIO_ALIAS, OID_CUR_ZONE_ALIAS, OID_SERIAL_NUMBER, OID_CUR_CHANNEL_NAME >>

ALL_FLOATS == <<
  OID_PSU_VOLTAGE, OID_VSWR, OID_PA_TEMPERATURE, OID_TX_FWD_POWER, OID_TX_REF_POWER >>

\* mutant: the catalog polls OID_PSU_VOLTAGE twice
ALL_KNOWNRepeated == <<
  OID_PSU_VOLTAGE, OID_PA_TEMPERATURE, OID_VSWR, OID_TX_FWD_POWER,
  OID_TX_REF_POWER, OID_RSSI_TS1, OID_RSSI_TS2, OID_REPEATER_MODEL,
  OID_MODEL_NUMBER, OID_FIRMWARE_VERSION, OID_RCDB_VERSION, OID_SERIAL_NUMBER,
  OID_RADIO_ALIAS, OID_RADIO_ID, OID_CUR_CHANNEL_MODE, OID_CUR_CHANNEL_NAME,
  OID_TX_FREQUENCE, OID_RX_FREQUENCE, OID_WORK_STATUS, OID_PSU_VOLTAGE >>

ALL_KNOWN == <<
  OID_PSU_VOLTAGE, OID_PA_TEMPERATURE, OID_VSWR, OID_TX_FWD_POWER,
  OID_TX_REF_POWER, OID_RSSI_TS1, OID_RSSI_TS2, OID_REPEATER_MODEL,
  OID_MODEL_NUMBER, OID_FIRMWARE_VERSION, OID_RCDB_VERSION, OID_SERIAL_NUMBER,
  OID_RADIO_ALIAS, OID_RADIO_ID, OID_CUR_CHANNEL_MODE, OID_CUR_CHANNEL_NAME,
  OID_TX_FREQUENCE, OID_RX_FREQUENCE, OID_WORK_STATUS, OID_CUR_ZONE_ALIAS >>

\* formats of READABLE_LABELS whose conversion is %d
DecimalFormats == {"%d mV", "%d m(deg)C", "%d dB", "%d mW", "%d", "%d Hz"}

BANNER == "-------------- REPEATER SNMP CONFIGURATION ----------------------------"

\* the gutter added to the longest label by print_snmp_data
LABEL_GUTTER == 5

(* ------------------------------ decoding ------------------------------- *)

IsCont(b) == b >= 128 /\ b <= 191

\* number of bytes of the UTF-8 sequence that starts s, 0 when s starts with
\* no well-formed sequence
Utf8SeqLen(s) ==
  LET b == s[1]
      n == Len(s)
  IN  IF b <= 127 THEN 1
      ELSE IF b >= 194 /\ b <= 223
        THEN IF n >= 2 /\ IsCont(s[2]) THEN 2 ELSE 0
      ELSE IF b >= 224 /\ b <= 239
        THEN IF n >= 3 /\ IsCont(s[2]) /\ IsCont(s[3])
                /\ (b = 224 => s[2] >= 160) /\ (b = 237 => s[2] <= 159)
             THEN 3 ELSE 0
      ELSE IF b >= 240 /\ b <= 244
        THEN IF n >= 4 /\ IsCont(s[2]) /\ IsCont(s[3]) /\ IsCont(s[4])
                /\ (b = 240 => s[2] >= 144) /\ (b = 244 => s[2] <= 143)
             THEN 4 ELSE 0
      ELSE 0

\* the code point of the well-formed sequence of k bytes that starts s
Utf8CodePoint(s, k) ==
  IF k = 1 THEN s[1]
  ELSE IF k = 2 THEN (s[1] - 192) * 64 + (s[2] - 128)
  ELSE IF k = 3 THEN (s[1] - 224) * 4096 + (s[2] - 128) * 64 + (s[3] - 128)
  ELSE (s[1] - 240) * 262144 + (s[2] - 128) * 4096 + (s[3] - 128) * 64 + (s[4] - 128)

RECURSIVE Utf8Valid(_)
Utf8Valid(s) ==
  IF s = <<>> THEN TRUE
  ELSE LET k == Utf8SeqLen(s)
       IN  k > 0 /\ Utf8Valid(SubSeq(s, k + 1, Len(s)))

RECURSIVE Utf8Decode(_)
\* the code points of a valid UTF-8 byte sequence
Utf8Decode(s) ==
  IF s = <<>> THEN <<>>
  ELSE LET k == Utf8SeqLen(s)
       IN  <<Utf8CodePoint(s, k)>> \o Utf8Decode(SubSeq(s, k + 1, Len(s)))

\* str(snmp_result, "utf8"): [exc, val]; exc is "" when nothing is raised
StrUtf8(v) ==
  IF PyType(v) # "bytes" THEN [exc |-> "TypeError", val |-> <<>>]
  ELSE IF ~Utf8Valid(PyBody(v)) THEN [exc |-> "UnicodeDecodeError", val |-> <<>>]
  ELSE [exc |-> "", val |-> PyStr(Utf8Decode(PyBody(v)))]

IsPrintable(c) == c >= 32 /\ c # 127

RECURSIVE RStripNonPrintable(_)
RStripNonPrintable(s) ==
  IF s = <<>> \/ IsPrintable(s[Len(s)]) THEN s
  ELSE RStripNonPrintable(SubSeq(s, 1, Len(s) - 1))

\* utils.octet_string_to_utf8: drops the NUL padding and the non-printable
\* trailing characters of a fixed-width string field
octet_string_to_utf8(v) ==
  PyStr(RStripNonPrintable(SelectSeq(PyBody(v), LAMBDA c : c # 0)))

RECURSIVE BigEndian(_)
BigEndian(s) ==
  IF s = <<>> THEN 0 ELSE 256 * BigEndian(SubSeq(s, 1, Len(s) - 1)) + s[Len(s)]

\* int.from_bytes(snmp_result, byteorder="big"): [exc, val]
IntFromBytes(v) ==
  IF PyType(v) # "bytes" THEN [exc |-> "TypeError", val |-> <<>>]
  ELSE [exc |-> "", val |-> PyInt(BigEndian(PyBody(v)))]

\* mutant: every result is recorded as fetched
DecodeRaw(oid, snmp_result) == [exc |-> "", val |-> snmp_result]

\* the decoding of the fetched snmp_result of oid: [exc, val]
Decode(oid, snmp_result) ==
  IF InTuple(oid, ALL_STRINGS)
    THEN LET s == StrUtf8(snmp_result)
         IN  IF s.exc # "" THEN s
             ELSE [exc |-> "", val |-> octet_string_to_utf8(s.val)]
  ELSE IF InTuple(oid, ALL_FLOATS)
    THEN IntFromBytes(snmp_result)
  ELSE [exc |-> "", val |-> snmp_result]

\* oid.replace("iso", "1")
NumericOid(oid) ==
  [root |-> IF oid.root = "iso" THEN "1" ELSE oid.root, arcs |-> oid.arcs]

(* ------------------------- the polled device --------------------------- *)

Readings == 1 .. MaxReadings

\* what the device in reading r holds under the catalog OID oid: the string
\* fields are NUL padded octet strings, the quantities of ALL_FLOATS two
\* byte octet strings, the others integers
DeviceValue(oid, r) ==
  IF InTuple(oid, ALL_STRINGS) THEN PyBytes(<<72, 64 + r, 0, 0>>)
  ELSE IF InTuple(oid, ALL_FLOATS) THEN PyBytes(<<r, 136>>)
  ELSE PyInt(r)

\* an octet string that is no UTF-8
BadText == PyBytes(<<72, 255>>)

\* the classes client.get and asyncio.wait_for raise
FetchExceptions ==
  {"ConnectionRefusedError", "SystemError", "CancelledError", "puresnmp.Timeout",
   "asyncio.TimeoutError", "TimeoutError", "Exception"}

\* the outcomes of awaiting client.get(oid=req) on a device in reading r:
\* [exc, val]. A request that is no numeric form of a catalog OID is not
\* answered with a value.
FetchOutcomes(req, r) ==
  LET known == {i \in DOMAIN ALL_KNOWN : NumericOid(ALL_KNOWN[i]) = req}
  IN  [exc : FetchExceptions, val : {<<>>}]
      \cup (IF req.root = "1" /\ known # {}
              THEN LET oid == ALL_KNOWN[CHOOSE i \in known : TRUE]
                   IN  {[exc |-> "", val |-> DeviceValue(oid, r)]}
                       \cup (IF InTuple(oid, ALL_STRINGS)
                               THEN {[exc |-> "", val |-> BadText]}
                               ELSE {})
                       \cup (IF InTuple(oid, ALL_FLOATS)
                               THEN {[exc |-> "", val |-> PyInt(r)]}
                               ELSE {})
              ELSE {})

(* ------------------------------ Reporter ------------------------------- *)

\* mutant: the width follows the label seen last, not the longest
LongestLabelLast(i, longest_label) == READABLE_LABELS[Len(READABLE_LABELS)][2].len

RECURSIVE LongestLabel(_, _)
\* the first loop of print_snmp_data, from item i of READABLE_LABELS on
LongestLabel(i, longest_label) ==
  IF i > Len(READABLE_LABELS) THEN longest_label
  ELSE LET label_len == READABLE_LABELS[i][2].len
       IN  LongestLabel(i + 1, IF label_len > longest_label THEN label_len
                               ELSE longest_label)

\* str.ljust(width) of a string of n characters: its length afterwards
LjustLen(n, width) == IF n >= width THEN n ELSE width

BannerLine == [label |-> BANNER, width |-> 0, fmt |-> "", value |-> <<>>]

\* fmt % value raises TypeError when %d meets a value that is no number
FormatRaises(fmt, value) == fmt \in DecimalFormats /\ PyType(value) # "int"

RECURSIVE PrintEntries(_, _, _)
\* the second loop of print_snmp_data, from item i of the store on:
\* [lines, exc] with the lines logged so far
PrintEntries(data, i, lines) ==
  IF i > Len(data) THEN [lines |-> lines, exc |-> ""]
  ELSE LET key == data[i][1]
       IN  IF ~DictHas(READABLE_LABELS, key) THEN PrintEntries(data, i + 1, lines)
           ELSE LET print_settings == DictGet(READABLE_LABELS, key)
                    value == DictGet(data, key)
                IN  IF FormatRaises(print_settings.fmt, value)
                      THEN [lines |-> lines, exc |-> "TypeError"]
                      ELSE PrintEntries(data, i + 1, Append(lines,
                             [label |-> print_settings.label,
                              width |-> LjustLen(print_settings.len,
                                                 LongestLabel(1, 0) + LABEL_GUTTER),
                              fmt |-> print_settings.fmt,
                              value |-> value]))

\* print_snmp_data(settings_storage): the lines it logs and the exception
\* it raises, if any
print_snmp_data(data) ==
  LET body == PrintEntries(data, 1, <<BannerLine>>)
  IN  IF body.exc # "" THEN body
      ELSE [lines |-> Append(body.lines, BannerLine), exc |-> ""]

(* ------------------------------- walk_ip ------------------------------- *)

\* mutant: the refused connection is caught with the timeouts
ExceptClausesRefusedRetried == <<
  [classes |-> {"SystemError"}, bare |-> FALSE, handler |-> "system"],
  [classes |-> {"ConnectionRefusedError", "CancelledError", "puresnmp.Timeout",
                "asyncio.TimeoutError", "TimeoutError"},
   bare |-> FALSE, handler |-> "timeout"],
  [classes |-> {}, bare |-> TRUE, handler |-> "unhandled"] >>

\* mutant: no bare except clause
ExceptClausesNoBare == <<
  [classes |-> {"ConnectionRefusedError"}, bare |-> FALSE, handler |-> "refused"],
  [classes |-> {"SystemError"}, bare |-> FALSE, handler |-> "system"],
  [classes |-> {"CancelledError", "puresnmp.Timeout", "asyncio.TimeoutError",
                "TimeoutError"}, bare |-> FALSE, handler |-> "timeout"] >>

\* mutant: a malformed text is caught with the timeouts
ExceptClausesDecodeRetried == <<
  [classes |-> {"ConnectionRefusedError"}, bare |-> FALSE, handler |-> "refused"],
  [classes |-> {"SystemError"}, bare |-> FALSE, handler |-> "system"],
  [classes |-> {"CancelledError", "puresnmp.Timeout", "asyncio.TimeoutError",
                "TimeoutError", "UnicodeDecodeError"},
   bare |-> FALSE, handler |-> "timeout"],
  [classes |-> {}, bare |-> TRUE, handler |-> "unhandled"] >>

\* mutant: SystemError is caught with the timeouts
ExceptClausesSystemRetried == <<
  [classes |-> {"ConnectionRefusedError"}, bare |-> FALSE, handler |-> "refused"],
  [classes |-> {"SystemError", "CancelledError", "puresnmp.Timeout",
                "asyncio.TimeoutError", "TimeoutError"},
   bare |-> FALSE, handler |-> "timeout"],
  [classes |-> {}, bare |-> TRUE, handler |-> "unhandled"] >>

\* the except clauses of walk_ip in source order; the last one is bare
ExceptClauses == <<
  [classes |-> {"ConnectionRefusedError"}, bare |-> FALSE, handler |-> "refused"],
  [classes |-> {"SystemError"}, bare |-> FALSE, handler |-> "system"],
  [classes |-> {"CancelledError", "puresnmp.Timeout", "asyncio.TimeoutError",
                "TimeoutError"}, bare |-> FALSE, handler |-> "timeout"],
  [classes |-> {}, bare |-> TRUE, handler |-> "unhandled"] >>

\* the handler of the first except clause that matches exc
HandlerFor(exc) ==
  LET hits == {i \in DOMAIN ExceptClauses :
                 ExceptClauses[i].bare \/ exc \in ExceptClauses[i].classes}
  IN  IF hits = {} THEN "propagate"
      ELSE ExceptClauses[CHOOSE i \in hits : \A j \in hits : i <= j].handler

OtherCommunity(snmp_community) ==
  IF snmp_community = "hytera" THEN "public" ELSE "hytera"

\* mutant: every attempt gets the one client made first
NewClientShared(id, ip, snmp_community) ==
  [id |-> 1, ip |-> ip, community |-> snmp_community]

\* puresnmp.PyWrapper(client=puresnmp.Client(ip, V1(community))), the id-th
\* client object made during the walk
NewClient(id, ip, snmp_community) ==
  [id |-> id, ip |-> ip, community |-> snmp_community]

\* mutant: the result is recorded under the numeric form sent to the device
SnapshotKeyNumeric(oid) == NumericOid(oid)

\* the key under which the decoded result of oid is recorded
SnapshotKey(oid) == oid

\* mutant: the timeout handler retries on every attempt
RetryAlways(f) == TRUE

\* the test of the timeout handler that allows the nested walk_ip
RetryAllowed(f) == f.first_try

\* mutant: the nested call does not pass first_try=False
FallbackArgsFirst(f) ==
  [ip |-> f.ip, first_try |-> TRUE, snmp_community |-> f.other_community,
   timeout_secs |-> DEFAULT_TIMEOUT_SECS]

\* the arguments of the nested walk_ip; timeout_secs is not passed on
FallbackArgs(f) ==
  [ip |-> f.ip, first_try |-> FALSE, snmp_community |-> f.other_community,
   timeout_secs |-> DEFAULT_TIMEOUT_SECS]

\* mutant: the commit is not guarded by is_success
CommitAlways(f) == TRUE

\* the test that guards the commit into the storage
ShouldCommit(f) == f.is_success

\* mutant: the storage is replaced by the snapshot
MergeReplace(data, snmp_data, i) == snmp_data

\* for key, value in snmp_data.items(): hytera_snmp_data[key] = value
RECURSIVE Merge(_, _, _)
Merge(data, snmp_data, i) ==
  IF i > Len(snmp_data) THEN data
  ELSE Merge(DictSet(data, snmp_data[i][1], snmp_data[i][2]), snmp_data, i + 1)

\* the value walk_ip returns
ReturnValue(f) == f.snmp_data

NoReq == [client |-> 0, oid |-> [root |-> "", arcs |-> ""], timeout |-> 0]

NoLast == [exc |-> "", attempt |-> 0]

Top(m) == m.stack[Len(m.stack)]

SetTop(m, f) == [m EXCEPT !.stack[Len(m.stack)] = f]

SetOutcome(m, outcome) == [m EXCEPT !.log[Len(m.stack)].outcome = outcome]

RECURSIVE Propagate(_)
\* an exception leaves the top frame; the frame below awaits the nested
\* walk_ip inside its except clause, so the exception leaves it as well
Propagate(m) ==
  LET rest == SubSeq(m.stack, 1, Len(m.stack) - 1)
  IN  IF rest = <<>>
        THEN [m EXCEPT !.stack = rest, !.ret = [status |-> "raised", value |-> <<>>]]
        ELSE Propagate([m EXCEPT !.stack = rest])

RECURSIVE Epilogue(_)
\* the top frame returns value; the frame below resumes after its await
Return(m, value) ==
  LET rest == SubSeq(m.stack, 1, Len(m.stack) - 1)
  IN  IF rest = <<>>
        THEN [m EXCEPT !.stack = rest, !.ret = [status |-> "returned", value |-> value]]
        ELSE Epilogue([m EXCEPT !.stack = rest])

\* mutant: the report is printed before the commit
EpilogueReportFirst(m) ==
  LET f == Top(m)
  IN  IF ShouldCommit(f)
        THEN LET out == print_snmp_data(m.store)
                 m1 == [m EXCEPT !.store = Merge(m.store, f.snmp_data, 1),
                                 !.log[Len(m.stack)].merged = TRUE,
                                 !.printed = Append(@, out.lines)]
             IN  IF out.exc # "" THEN Propagate(m1) ELSE Return(m1, ReturnValue(f))
        ELSE Return(m, ReturnValue(f))

\* the top frame after its try statement: commit, report, return
Epilogue(m) ==
  LET f == Top(m)
  IN  IF ShouldCommit(f)
        THEN LET data == Merge(m.store, f.snmp_data, 1)
                 out == print_snmp_data(data)
                 m1 == [m EXCEPT !.store = data,
                                 !.log[Len(m.stack)].merged = TRUE,
                                 !.printed = Append(@, out.lines)]
             IN  IF out.exc # "" THEN Propagate(m1) ELSE Return(m1, ReturnValue(f))
        ELSE Return(m, ReturnValue(f))

\* mutant: the loop head polls the first OID of the catalog again and again
LoopRefetch(m) ==
  LET f == Top(m)
  IN  IF f.idx < Len(ALL_KNOWN)
        THEN SetTop(m, [f EXCEPT !.req = [client |-> f.client.id,
                                          oid |-> NumericOid(ALL_KNOWN[1]),
                                          timeout |-> f.timeout_secs]])
        ELSE Epilogue(SetOutcome(SetTop(m, [f EXCEPT !.is_success = TRUE]), "ok"))

\* the head of the for loop of the top frame: the next fetch is issued and
\* the coroutine suspends, or the loop is over and is_success is set
Loop(m) ==
  LET f == Top(m)
  IN  IF f.idx < Len(ALL_KNOWN)
        THEN LET _oid == NumericOid(ALL_KNOWN[f.idx + 1])
             IN  SetTop(m, [f EXCEPT !.req = [client |-> f.client.id, oid |-> _oid,
                                              timeout |-> f.timeout_secs]])
        ELSE Epilogue(SetOutcome(SetTop(m, [f EXCEPT !.is_success = TRUE]), "ok"))

\* walk_ip from its call to its first suspension
Enter(m, args) ==
  LET id == m.nclients + 1
      f == [ip |-> args.ip,
            snmp_community |-> args.snmp_community,
            first_try |-> args.first_try,
            timeout_secs |-> args.timeout_secs,
            is_success |-> FALSE,
            snmp_data |-> <<>>,
            other_community |-> OtherCommunity(args.snmp_community),
            client |-> NewClient(id, args.ip, args.snmp_community),
            idx |-> 0,
            req |-> NoReq]
  IN  Loop([m EXCEPT !.stack = Append(@, f),
                     !.nclients = id,
                     !.log = Append(@, [ip |-> f.ip,
                                        snmp_community |-> f.snmp_community,
                                        first_try |-> f.first_try,
                                        timeout_secs |-> f.timeout_secs,
                                        client |-> f.client.id,
                                        outcome |-> "running",
                                        merged |-> FALSE])])

\* exc is raised inside the try statement of the top frame
Raise(m, exc) ==
  LET f == Top(m)
      handler == HandlerFor(exc)
      m1 == SetOutcome([SetTop(m, [f EXCEPT !.req = NoReq])
                          EXCEPT !.last = [exc |-> exc, attempt |-> Len(m.stack)]],
                       handler)
  IN  IF handler = "propagate" THEN Propagate(m1)
      ELSE IF handler = "timeout" /\ RetryAllowed(f) THEN Enter(m1, FallbackArgs(f))
      ELSE Epilogue(m1)

\* mutant: each decoded result is written to the storage at once
ResumeIntoStore(m, out) ==
  LET f == Top(m)
      oid == ALL_KNOWN[f.idx + 1]
      d == Decode(oid, out.val)
  IN  IF out.exc # "" THEN Raise(m, out.exc)
      ELSE IF d.exc # "" THEN Raise(m, d.exc)
      ELSE Loop([SetTop(m, [f EXCEPT !.snmp_data = DictSet(@, SnapshotKey(oid), d.val),
                                     !.idx = @ + 1,
                                     !.req = NoReq])
                   EXCEPT !.last = NoLast,
                          !.store = DictSet(@, SnapshotKey(oid), d.val)])

\* the awaited fetch of the top frame ends with outcome out = [exc, val]
Resume(m, out) ==
  LET f == Top(m)
      oid == ALL_KNOWN[f.idx + 1]
      d == Decode(oid, out.val)
  IN  IF out.exc # "" THEN Raise(m, out.exc)
      ELSE IF d.exc # "" THEN Raise(m, d.exc)
      ELSE Loop([SetTop(m, [f EXCEPT !.snmp_data = DictSet(@, SnapshotKey(oid), d.val),
                                     !.idx = @ + 1,
                                     !.req = NoReq])
                   EXCEPT !.last = NoLast])

(* -------------------------------- state -------------------------------- *)

\* the coroutines that may run on the event loop
Walkers == {1, 2}

\* the target addresses
IPs == {"192.168.1.10"}

\* the values of timeout_secs callers pass
Timeouts == {DEFAULT_TIMEOUT_SECS, 5}

\* an entry of the storage that walk_ip does not poll
ExtraKey == [root |-> "iso", arcs |-> "3.6.1.2.1.1.5.0"]

VARIABLES
  store,      \* settings_storage.hytera_snmp_data
  device,     \* device[ip]: the reading of the device at ip
  stack,      \* stack[w]: the walk_ip frames of walker w, the innermost last
  log,        \* log[w]: one record per walk_ip call of the current walk of w
  printed,    \* printed[w]: what each print_snmp_data of that walk logged
  ret,        \* ret[w]: how the top-level walk_ip of w ended
  nclients,   \* nclients[w]: the clients made during that walk
  last        \* last[w]: the exception handled by the latest step of w

vars == <<store, device, stack, log, printed, ret, nclients, last>>

NoRet == [status |-> "none", value |-> <<>>]

Machine(w) ==
  [stack |-> stack[w], store |-> store, log |-> log[w], printed |-> printed[w],
   ret |-> ret[w], nclients |-> nclients[w], last |-> last[w]]

\* walker w moves to machine state m
Install(w, m) ==
  /\ store' = m.store
  /\ stack' = [stack EXCEPT ![w] = m.stack]
  /\ log' = [log EXCEPT ![w] = m.log]
  /\ printed' = [printed EXCEPT ![w] = m.printed]
  /\ ret' = [ret EXCEPT ![w] = m.ret]
  /\ nclients' = [nclients EXCEPT ![w] = m.nclients]
  /\ last' = [last EXCEPT ![w] = m.last]

Init ==
  /\ store \in {<<>>, <<<<ExtraKey, PyStr(<<72>>)>>>>}
  /\ device \in [IPs -> Readings]
  /\ stack = [w \in Walkers |-> <<>>]
  /\ log = [w \in Walkers |-> <<>>]
  /\ printed = [w \in Walkers |-> <<>>]
  /\ ret = [w \in Walkers |-> NoRet]
  /\ nclients = [w \in Walkers |-> 0]
  /\ last = [w \in Walkers |-> NoLast]

\* a caller starts walk_ip(ip, settings_storage, snmp_community,
\* timeout_secs=timeout_secs) on walker w
Call(w, ip, snmp_community, timeout_secs) ==
  /\ stack[w] = <<>>
  /\ Install(w, Enter([Machine(w) EXCEPT !.log = <<>>, !.printed = <<>>,
                                         !.ret = NoRet, !.nclients = 0,
                                         !.last = NoLast],
                      [ip |-> ip, first_try |-> TRUE,
                       snmp_community |-> snmp_community,
                       timeout_secs |-> timeout_secs]))
  /\ UNCHANGED device

\* the awaited fetch of walker w ends and the coroutine runs to its next
\* suspension or to its end
Fetched(w) ==
  /\ stack[w] # <<>>
  /\ \E out \in FetchOutcomes(Top(Machine(w)).req.oid, device[Top(Machine(w)).ip]) :
       Install(w, Resume(Machine(w), out))
  /\ UNCHANGED device

\* the device at ip takes another reading while no walk polls it
DeviceChange(ip, r) ==
  /\ \A w \in Walkers : \A i \in DOMAIN stack[w] : stack[w][i].ip # ip
  /\ device[ip] # r
  /\ device' = [device EXCEPT ![ip] = r]
  /\ UNCHANGED <<store, stack, log, printed, ret, nclients, last>>

\* one walk at a time
Next ==
  \/ \E ip \in IPs, c \in KNOWN_SNMP_COMMUNITIES, t \in Timeouts : Call(1, ip, c, t)
  \/ Fetched(1)
  \/ \E ip \in IPs, r \in Readings : DeviceChange(ip, r)

Spec == Init /\ [][Next]_vars


\* the awaited fetch of walker w ends with the connection refused: one of
\* the steps of Fetched(w), possible whenever Fetched(w) is
FetchRefused(w) ==
  /\ stack[w] # <<>>
  /\ \E m \in {Resume(Machine(w), [exc |-> "ConnectionRefusedError", val |-> <<>>])} :
       Install(w, m)
  /\ UNCHANGED device

\* walks of one caller that keeps to the default community, over an empty
\* storage and a device that keeps its reading
InitLive == Init /\ store = <<>>

NextLive ==
  \/ \E ip \in IPs, t \in Timeouts : Call(1, ip, DEFAULT_SNMP_COMMUNITY, t)
  \/ Fetched(1)

\* the event loop resumes a coroutine whose awaited fetch is over, and
\* asyncio.wait_for ends every fetch after timeout_secs at the latest: weak
\* fairness of Fetched(1). FetchRefused(1) is part of Fetched(1) and is
\* named first so that the enabledness of the action is found by it.
SpecLive == InitLive /\ [][NextLive]_vars /\ WF_vars(FetchRefused(1) \/ Fetched(1))

(* ------------------------ the reporter on its own ----------------------- *)

\* entries a storage may hold: three with a label (the last has the longest
\* label), two without (the second is a catalog OID in its numeric form)
PoolEntries == {
  <<OID_PSU_VOLTAGE, PyInt(5000)>>,
  <<OID_RADIO_ALIAS, PyStr(<<72, 66>>)>>,
  <<OID_CUR_CHANNEL_MODE, PyInt(2)>>,
  <<ExtraKey, PyStr(<<72>>)>>,
  <<NumericOid(OID_RADIO_ID), PyInt(7)>> }

\* the storages of at most MaxStoreLen of these entries, in any order
ReportStores ==
  UNION {{s \in [1 .. n -> PoolEntries] :
            \A i, j \in 1 .. n : s[i][1] = s[j][1] => i = j} : n \in 0 .. MaxStoreLen}

InitReport ==
  /\ store \in ReportStores
  /\ device \in [IPs -> {1}]
  /\ stack = [w \in Walkers |-> <<>>]
  /\ log = [w \in Walkers |-> <<>>]
  /\ printed = [w \in Walkers |-> <<>>]
  /\ ret = [w \in Walkers |-> NoRet]
  /\ nclients = [w \in Walkers |-> 0]
  /\ last = [w \in Walkers |-> NoLast]

\* a caller runs print_snmp_data(settings_storage) on walker w
Report(w) ==
  /\ stack[w] = <<>>
  /\ printed[w] = <<>>
  /\ LET out == print_snmp_data(store)
     IN  /\ printed' = [printed EXCEPT ![w] = <<out.lines>>]
         /\ ret' = [ret EXCEPT ![w] = IF out.exc # ""
                                        THEN [status |-> "raised", value |-> <<>>]
                                        ELSE [status |-> "returned", value |-> <<>>]]
  /\ UNCHANGED <<store, device, stack, log, nclients, last>>

NextReport == Report(1)

SpecReport == InitReport /\ [][NextReport]_vars

(* ----------------------- two walks on one event loop -------------------- *)

\* the addresses of two devices, walker w polling TwoIPs[w]
TwoIPs == <<"192.168.1.10", "192.168.1.11">>

\* the device of walker w shows reading w, so the two walks fetch
\* different values for every OID
InitTwo ==
  /\ store = <<>>
  /\ device = [ip \in {TwoIPs[w] : w \in Walkers} |->
                 CHOOSE w \in Walkers : TwoIPs[w] = ip]
  /\ stack = [w \in Walkers |-> <<>>]
  /\ log = [w \in Walkers |-> <<>>]
  /\ printed = [w \in Walkers |-> <<>>]
  /\ ret = [w \in Walkers |-> NoRet]
  /\ nclients = [w \in Walkers |-> 0]
  /\ last = [w \in Walkers |-> NoLast]

\* the failures the two devices show: a timeout or a refused connection,
\* at one of the first fetches of an attempt
TwoFailures == {"asyncio.TimeoutError", "ConnectionRefusedError"}

\* a resumption of walker w against such a device
FetchedTwo(w) ==
  /\ Fetched(w)
  /\ last'[w] # NoLast =>
       /\ last'[w].exc \in TwoFailures
       /\ Top(Machine(w)).idx <= MaxFailIdx

\* the event loop runs either coroutine from one suspension to the next
NextTwo ==
  \E w \in Walkers :
    \/ Call(w, TwoIPs[w], DEFAULT_SNMP_COMMUNITY, DEFAULT_TIMEOUT_SECS)
    \/ FetchedTwo(w)

SpecTwo == InitTwo /\ [][NextTwo]_vars

(* ------------------------- vocabulary of claims ------------------------ *)

\* the timeout/cancellation class of failures
TimeoutClass == {"CancelledError", "puresnmp.Timeout", "asyncio.TimeoutError", "TimeoutError"}

CatalogOids == {ALL_KNOWN[i] : i \in DOMAIN ALL_KNOWN}

\* the catalog OIDs data has an entry for
CatalogKeysIn(data) == {k \in CatalogOids : DictHas(data, k)}

\* walker w took the step
Stepped(w) == stack'[w] # stack[w]

\* the step ended the walk of walker w
Ended(w) == stack[w] # <<>> /\ stack'[w] = <<>>

\* the step wrote into the store on behalf of attempt a of walker w
Wrote(w, a) ==
  /\ a \in DOMAIN log'[w]
  /\ log'[w][a].merged
  /\ ~(a \in DOMAIN log[w] /\ log[w][a].merged)

(* -------------------------------- claims ------------------------------- *)

\* C1: all-or-nothing commit. A step in which a fetch or a decode fails
\* leaves the store as it was; a step changes the store only for an attempt
\* that ended "ok" having fetched and decoded every catalog OID (its frame
\* was at the last catalog position); and in every state the store holds
\* either no catalog OID or all of them.
C1_AllOrNothing ==
  /\ [](\A w \in Walkers :
          /\ CatalogKeysIn(store) \in {{}, CatalogOids}
          /\ \A a \in DOMAIN log[w] : log[w][a].merged => log[w][a].outcome = "ok")
  /\ [][\A w \in Walkers :
          /\ (Stepped(w) /\ last'[w].exc # "") => store' = store
          /\ (Stepped(w) /\ store' # store) =>
               /\ stack[w] # <<>>
               /\ Top(Machine(w)).idx = Len(ALL_KNOWN) - 1
               /\ DictKeys(Top(Machine(w)).snmp_data)
                    = SubSeq(ALL_KNOWN, 1, Len(ALL_KNOWN) - 1)
               /\ Wrote(w, Len(stack[w]))
               /\ log'[w][Len(stack[w])].outcome = "ok"]_vars

\* C1 witness: a walk ended on a failure at a position k > 0 and the store
\* holds no catalog OID.
C1_Witness ==
  /\ stack[1] = <<>>
  /\ ret[1].status = "returned"
  /\ last[1].exc = "SystemError"
  /\ Len(ret[1].value) = 3
  /\ CatalogKeysIn(store) = {}

\* C2: a timeout class failure of an attempt made with first_try true
\* starts exactly one further attempt, with the alternate community and
\* first_try false; a timeout class failure of that attempt ends the walk;
\* a walk makes at most two attempts.
C2_OneFallback ==
  \A w \in Walkers :
    /\ Len(log[w]) <= 2
    /\ (last[w].exc \in TimeoutClass /\ log[w][last[w].attempt].first_try) =>
         /\ Len(log[w]) = last[w].attempt + 1
         /\ Len(stack[w]) = Len(log[w])
         /\ ~log[w][Len(log[w])].first_try
         /\ log[w][Len(log[w])].outcome = "running"
         /\ log[w][Len(log[w])].snmp_community
              = (IF log[w][last[w].attempt].snmp_community = "public"
                   THEN "hytera" ELSE "public")
         /\ Top(Machine(w)).client.community = log[w][Len(log[w])].snmp_community
    /\ (last[w].exc \in TimeoutClass /\ ~log[w][last[w].attempt].first_try) =>
         /\ stack[w] = <<>>
         /\ Len(log[w]) = last[w].attempt

\* C2 witness: the fallback attempt timed out as well, after two attempts.
C2_Witness ==
  /\ last[1].exc = "puresnmp.Timeout"
  /\ last[1].attempt = 2
  /\ Len(log[1]) = 2
  /\ log[1][1].snmp_community = "hytera"
  /\ log[1][2].snmp_community = "public"
  /\ stack[1] = <<>>

\* C3: a step in which a fetch fails with a refused connection, on the
\* first or on the fallback attempt, ends the walk: no attempt is started,
\* no fetch is in flight afterwards and the store is left as it was.
C3_RefusedIsFinal ==
  [][\A w \in Walkers :
       (Stepped(w) /\ last'[w].exc = "ConnectionRefusedError") =>
         /\ Ended(w)
         /\ Len(log'[w]) = Len(log[w])
         /\ nclients'[w] = nclients[w]
         /\ store' = store
         /\ \A a \in DOMAIN log'[w] : ~log'[w][a].merged]_vars

\* C3 witness: the fallback attempt was refused and the walk is over.
C3_Witness ==
  /\ last[1].exc = "ConnectionRefusedError"
  /\ last[1].attempt = 2
  /\ stack[1] = <<>>
  /\ Len(log[1]) = 2

\* C4: whatever failure a fetch or a decode raised, on either attempt, the
\* top-level walk_ip returns a value: it never ends by raising, and a walk
\* that is over has returned.
C4_ReportAndReturn ==
  \A w \in Walkers :
    /\ ret[w].status # "raised"
    /\ (stack[w] = <<>> /\ log[w] # <<>>) => ret[w].status = "returned"
    /\ (stack[w] # <<>>) => ret[w].status = "none"

\* C4 witness: a walk is over whose fallback attempt ended on a failure of
\* no named class.
C4_Witness ==
  /\ stack[1] = <<>>
  /\ last[1].exc \in {"Exception", "UnicodeDecodeError", "TypeError"}
  /\ last[1].attempt = 2
  /\ ret[1].status = "returned"

\* C5: a step in which an attempt commits puts every catalog OID into the
\* store once, under the catalog's own oid, adding one entry per catalog
\* OID that was absent and none else; into an empty store it puts exactly
\* the catalog OIDs in catalog order; a first attempt that commits returns
\* a snapshot whose keys are the catalog in catalog order.
C5_CommitIsWholeCatalog ==
  [][\A w \in Walkers : \A a \in DOMAIN log'[w] :
       (Stepped(w) /\ Wrote(w, a)) =>
         /\ CatalogKeysIn(store') = CatalogOids
         /\ \A i, j \in DOMAIN store' : store'[i][1] = store'[j][1] => i = j
         /\ Len(store') = Len(store) + Cardinality(CatalogOids \ CatalogKeysIn(store))
         /\ store = <<>> => (DictKeys(store') = ALL_KNOWN /\ Len(store') = Len(ALL_KNOWN))
         /\ a = 1 => DictKeys(ret'[w].value) = ALL_KNOWN]_vars

\* C5 witness: a first attempt committed into a store that was empty.
C5_Witness ==
  /\ Len(log[1]) = 1
  /\ log[1][1].merged
  /\ Len(store) = Len(ALL_KNOWN)
  /\ DictKeys(store) = ALL_KNOWN

\* C6 as claimed: a malformed text on an attempt made with first_try true
\* starts the fallback attempt, as a timeout does.
C6_DecodeErrorRetried ==
  \A w \in Walkers :
    (last[w].exc = "UnicodeDecodeError" /\ log[w][last[w].attempt].first_try) =>
      /\ Len(log[w]) = last[w].attempt + 1
      /\ Len(stack[w]) = Len(log[w])

\* C6 amended: a malformed text aborts the loop and is handled by the bare
\* except clause: on either attempt it ends the walk, with no fallback
\* attempt and no commit by that attempt.
C6_DecodeErrorIsFinal ==
  \A w \in Walkers :
    last[w].exc = "UnicodeDecodeError" =>
      /\ stack[w] = <<>>
      /\ ret[w].status = "returned"
      /\ Len(log[w]) = last[w].attempt
      /\ log[w][last[w].attempt].outcome = "unhandled"
      /\ ~log[w][last[w].attempt].merged

\* C6 witness: the first attempt met a malformed text after it had decoded
\* the OIDs before it, and the walk is over after that one attempt.
C6_Witness ==
  /\ last[1].exc = "UnicodeDecodeError"
  /\ last[1].attempt = 1
  /\ log[1][1].first_try
  /\ Len(log[1]) = 1
  /\ Len(ret[1].value) >= 7
  /\ stack[1] = <<>>

\* C7: the walk follows FirstAttempt -> FallbackAttempt -> Done: a fallback
\* attempt that has just started follows a timeout class failure of the
\* first attempt; a failure of any other class ends the walk in the step
\* that handles it; a first attempt that ended "ok", refused, on a
\* SystemError or on an unclassified exception is the only attempt.
C7_FallbackOnlyOnTimeout ==
  \A w \in Walkers :
    /\ Len(stack[w]) <= 2 /\ Len(log[w]) <= 2
    /\ (Len(stack[w]) = 2 /\ Top(Machine(w)).idx = 0) =>
         (last[w].exc \in TimeoutClass /\ last[w].attempt = 1)
    /\ (last[w].exc # "" /\ last[w].exc \notin TimeoutClass) =>
         (stack[w] = <<>> /\ Len(log[w]) = last[w].attempt)
    /\ (log[w] # <<>> /\ log[w][1].outcome \in {"ok", "refused", "system", "unhandled"}) =>
         (stack[w] = <<>> /\ Len(log[w]) = 1)
    /\ Len(log[w]) = 2 => (log[w][1].outcome = "timeout" /\ log[w][1].first_try)

\* C7 witness: a first attempt that ended on a SystemError is the only
\* attempt of a walk that is over.
C7_Witness ==
  /\ last[1].exc = "SystemError"
  /\ last[1].attempt = 1
  /\ Len(log[1]) = 1
  /\ log[1][1].outcome = "system"
  /\ stack[1] = <<>>

\* C8 as claimed: a walk that ended on a refused connection returns an
\* empty snapshot.
C8_RefusedReturnsEmpty ==
  \A w \in Walkers :
    (last[w].exc = "ConnectionRefusedError" /\ stack[w] = <<>>) =>
      (ret[w].status = "returned" /\ ret[w].value = <<>>)

\* the clients that the frames of walker w hold
HeldClients(w) == {stack[w][i].client.id : i \in DOMAIN stack[w]}

\* C9 as claimed: the first attempt's session is released before the
\* fallback's is acquired, so a walk holds at most one session at a time.
C9_OneSessionAtATime ==
  \A w \in Walkers : Cardinality(HeldClients(w)) <= 1

\* C9 amended: every attempt makes its own client, for its own community,
\* and sends its fetches through that client alone; no client serves two
\* attempts; only the innermost attempt has a fetch in flight; the first
\* attempt's client stays held by its suspended frame while the fallback
\* attempt runs, so a walk holds at most two clients, and none once over.
C9_SessionPerAttempt ==
  \A w \in Walkers :
    /\ Len(stack[w]) <= 2
    /\ nclients[w] = Len(log[w])
    /\ \A i, j \in DOMAIN stack[w] :
         stack[w][i].client.id = stack[w][j].client.id => i = j
    /\ \A a, b \in DOMAIN log[w] : log[w][a].client = log[w][b].client => a = b
    /\ \A i \in DOMAIN stack[w] :
         /\ stack[w][i].client.community = stack[w][i].snmp_community
         /\ stack[w][i].client.ip = stack[w][i].ip
         /\ stack[w][i].client.id = log[w][i].client
         /\ i < Len(stack[w]) => stack[w][i].req = NoReq
         /\ i = Len(stack[w]) => stack[w][i].req.client = stack[w][i].client.id
    /\ Cardinality(HeldClients(w)) = Len(stack[w])

\* C9 witness: the fallback attempt has fetched some OIDs through its own
\* client while the first attempt's frame still holds the first client.
C9_Witness ==
  /\ Len(stack[1]) = 2
  /\ stack[1][2].idx = 2
  /\ HeldClients(1) = {1, 2}
  /\ stack[1][2].req.client = 2

\* C10: a step keeps every entry of the store in its place under its key,
\* keeps the value of every entry whose key is no catalog OID, and gives
\* an entry it changes the value decoded from the device's reading at
\* that time.
C10_StoreOnlyMerged ==
  [][\A i \in DOMAIN store :
       /\ i \in DOMAIN store'
       /\ store'[i][1] = store[i][1]
       /\ store[i][1] \notin CatalogOids => store'[i] = store[i]
       /\ store'[i] # store[i] =>
            \E ip \in IPs :
              store'[i][2] = Decode(store[i][1], DeviceValue(store[i][1], device[ip])).val]_vars

\* C10 witness: a walk failed after an earlier one had committed, and the
\* store holds its uncatalogued entry followed by the whole catalog.
C10_Witness ==
  /\ stack[1] = <<>>
  /\ last[1].exc = "ConnectionRefusedError"
  /\ Len(store) = Len(ALL_KNOWN) + 1
  /\ store[1][1] = ExtraKey
  /\ CatalogKeysIn(store) = CatalogOids

\* the entries of data whose key has a descriptor in READABLE_LABELS
Labelled(data) ==
  SelectSeq(data, LAMBDA e : \E j \in DOMAIN READABLE_LABELS : READABLE_LABELS[j][1] = e[1])

\* the descriptor of key
Descriptor(key) ==
  READABLE_LABELS[CHOOSE j \in DOMAIN READABLE_LABELS : READABLE_LABELS[j][1] = key][2]

\* the length of the longest label
MaxLabelLen ==
  CHOOSE n \in {READABLE_LABELS[j][2].len : j \in DOMAIN READABLE_LABELS} :
    \A j \in DOMAIN READABLE_LABELS : READABLE_LABELS[j][2].len <= n

TupleSet(t) == {t[i] : i \in DOMAIN t}

\* the descriptors READABLE_LABELS holds for key
Descriptors(key) == {i \in DOMAIN READABLE_LABELS : READABLE_LABELS[i][1] = key}

\* C12: the OIDs of ALL_KNOWN are pairwise distinct, each has exactly one
\* descriptor in READABLE_LABELS, and ALL_STRINGS and ALL_FLOATS are disjoint
\* subsets of the catalog; hence, at every suspension of every attempt, the
\* snapshot holds one entry per OID fetched so far, under distinct keys.
C12_CatalogWellFormed ==
  /\ \A i, j \in DOMAIN ALL_KNOWN : ALL_KNOWN[i] = ALL_KNOWN[j] => i = j
  /\ \A k \in CatalogOids : Cardinality(Descriptors(k)) = 1
  /\ TupleSet(ALL_STRINGS) \cap TupleSet(ALL_FLOATS) = {}
  /\ TupleSet(ALL_STRINGS) \subseteq CatalogOids
  /\ TupleSet(ALL_FLOATS) \subseteq CatalogOids
  /\ \A w \in Walkers : \A i \in DOMAIN stack[w] :
       LET f == stack[w][i]
       IN  /\ Len(f.snmp_data) = f.idx
           /\ \A a, b \in 1 .. f.idx : f.snmp_data[a][1] = f.snmp_data[b][1] => a = b
           /\ \A a \in 1 .. f.idx : f.snmp_data[a][1] = ALL_KNOWN[a]

\* an attempt waits for the last OID of the catalog with all the others in
\* its snapshot, texts and scaled integers among them
C12_Witness ==
  \E w \in Walkers :
    /\ stack[w] # <<>>
    /\ Top(Machine(w)).idx = Len(ALL_KNOWN) - 1
    /\ Len(Top(Machine(w)).snmp_data) = Len(ALL_KNOWN) - 1
    /\ DictHas(Top(Machine(w)).snmp_data, OID_RADIO_ALIAS)
    /\ DictHas(Top(Machine(w)).snmp_data, OID_VSWR)


(* --------------------------------- C13 --------------------------------- *)

\* the fetches frame f has issued so far
Issued(f) == f.idx + (IF f.req # NoReq THEN 1 ELSE 0)

\* C13: within one attempt the fetches are issued one at a time in the order
\* of ALL_KNOWN: a fetch in flight belongs to the innermost attempt, which
\* has not failed, and asks for the OID after the ones already returned; a
\* step of an attempt issues at most the next fetch, and only after the
\* previous one returned a value; an attempt whose try statement has ended
\* issues nothing; an attempt issues at most Len(ALL_KNOWN) fetches and a
\* walk has at most two attempts.
C13_SequentialFetches ==
  [][\A w \in Walkers :
       /\ Len(log'[w]) <= 2
       /\ \A i \in DOMAIN stack'[w] :
            LET f == stack'[w][i]
            IN  /\ Issued(f) <= Len(ALL_KNOWN)
                /\ f.req # NoReq =>
                     /\ i = Len(stack'[w])
                     /\ log'[w][i].outcome = "running"
                     /\ f.req.oid = NumericOid(ALL_KNOWN[f.idx + 1])
                     /\ f.req.client = f.client.id
                /\ IF i \in DOMAIN stack[w]
                     THEN LET g == stack[w][i]
                          IN  /\ f.client = g.client
                              /\ f.idx \in {g.idx, g.idx + 1}
                              /\ f.req # NoReq /\ f # g => f.idx = g.idx + 1
                              /\ f.idx = g.idx + 1 =>
                                   g.req # NoReq /\ last'[w] = NoLast
                              /\ log[w][i].outcome # "running" => f = g
                     ELSE f.idx = 0
     ]_vars

\* the fallback attempt has its third fetch in flight after the first
\* attempt stopped at its second
C13_Witness ==
  /\ Len(stack[1]) = 2
  /\ stack[1][1].idx = 1 /\ stack[1][1].req = NoReq
  /\ log[1][1].outcome = "timeout"
  /\ stack[1][2].idx = 2
  /\ stack[1][2].req.oid = NumericOid(OID_VSWR)


(* --------------------------------- C14 --------------------------------- *)

\* the OIDs of the catalog whose format shows a decimal integer
IntegerOids ==
  {k \in CatalogOids : \E i \in Descriptors(k) : READABLE_LABELS[i][2].fmt \in DecimalFormats}

\* what the device at the address of frame f answers for oid during the walk
Answer(f, oid) == DeviceValue(oid, device[f.ip])

\* C14 as stated: every snapshot entry is the decoding of the device's
\* answer by the kind of its OID: the normalised text for an OID of
\* ALL_STRINGS, the big-endian integer of the answered bytes for every OID
\* with an integer format; no entry is the answer as fetched.
C14_AllDecoded ==
  \A w \in Walkers : \A i \in DOMAIN stack[w] :
    LET f == stack[w][i]
    IN  \A a \in DOMAIN f.snmp_data :
          LET k == f.snmp_data[a][1]
              v == f.snmp_data[a][2]
          IN  /\ InTuple(k, ALL_STRINGS) =>
                   v = octet_string_to_utf8(StrUtf8(Answer(f, k)).val)
              /\ k \in IntegerOids =>
                   /\ IntFromBytes(Answer(f, k)).exc = ""
                   /\ v = IntFromBytes(Answer(f, k)).val
              /\ v # Answer(f, k)

\* C14 amended: a snapshot entry of an OID of ALL_STRINGS is the normalised
\* text of the answer, one of an OID of ALL_FLOATS is the big-endian integer
\* of the answered bytes, and one of any other catalog OID, integer format
\* or not, is the answer as fetched.
C14_DecodedByKind ==
  \A w \in Walkers : \A i \in DOMAIN stack[w] :
    LET f == stack[w][i]
    IN  \A a \in DOMAIN f.snmp_data :
          LET k == f.snmp_data[a][1]
              v == f.snmp_data[a][2]
          IN  IF InTuple(k, ALL_STRINGS)
                THEN /\ PyType(v) = "str"
                     /\ v = octet_string_to_utf8(StrUtf8(Answer(f, k)).val)
              ELSE IF InTuple(k, ALL_FLOATS)
                THEN /\ PyType(v) = "int"
                     /\ v = PyInt(BigEndian(PyBody(Answer(f, k))))
              ELSE v = Answer(f, k)

\* a snapshot holds a scaled integer, a text and an undecoded integer
C14_Witness ==
  \E w \in Walkers :
    /\ stack[w] # <<>>
    /\ DictHas(Top(Machine(w)).snmp_data, OID_PSU_VOLTAGE)
    /\ DictHas(Top(Machine(w)).snmp_data, OID_REPEATER_MODEL)
    /\ DictHas(Top(Machine(w)).snmp_data, OID_RSSI_TS2)
    /\ DictGet(Top(Machine(w)).snmp_data, OID_RSSI_TS2) = Answer(Top(Machine(w)), OID_RSSI_TS2)
    /\ OID_RSSI_TS2 \in IntegerOids


(* --------------------------------- C15 --------------------------------- *)

\* C15: the fallback attempt of a walk polls the address of the first
\* attempt, with the other community and first_try false, and with the
\* timeout_secs the caller gave to the first attempt, which is also the
\* timeout of each of its fetches.
C15_FallbackKeepsTimeout ==
  \A w \in Walkers :
    Len(log[w]) = 2 =>
      /\ log[w][2].ip = log[w][1].ip
      /\ log[w][2].snmp_community = OtherCommunity(log[w][1].snmp_community)
      /\ log[w][2].first_try = FALSE
      /\ log[w][2].timeout_secs = log[w][1].timeout_secs
      /\ (Len(stack[w]) = 2 /\ stack[w][2].req # NoReq) =>
           stack[w][2].req.timeout = log[w][1].timeout_secs


(* --------------------------------- C16 --------------------------------- *)

\* C16: when every fetch ends, every walk ends: a walk_ip in progress
\* eventually returns to its caller; meanwhile it has at most two frames,
\* the inner one being a fallback attempt, which has first_try false.
C16_WalkTerminates ==
  /\ [](\A w \in Walkers :
          /\ Len(stack[w]) <= 2
          /\ \A i \in DOMAIN stack[w] : stack[w][i].first_try = (i = 1))
  /\ \A w \in Walkers :
       (stack[w] # <<>>) ~> (stack[w] = <<>> /\ ret[w].status = "returned")

\* a walk that went through its fallback attempt has returned
C16_Witness ==
  /\ stack[1] = <<>>
  /\ ret[1].status = "returned"
  /\ Len(log[1]) = 2
  /\ log[1][2].outcome # "running"


(* --------------------------------- C17 --------------------------------- *)

\* C17: a walk that has returned after merging a snapshot into the storage,
\* by either attempt, has returned that snapshot: a value with an entry for
\* every OID of the catalog, each entry the one the storage got.
C17_ReturnsMergedSnapshot ==
  \A w \in Walkers :
    (ret[w].status = "returned" /\ \E i \in DOMAIN log[w] : log[w][i].merged) =>
      /\ CatalogKeysIn(ret[w].value) = CatalogOids
      /\ \A k \in CatalogOids : DictGet(ret[w].value, k) = DictGet(store, k)


(* --------------------------------- C18 --------------------------------- *)

\* the attempts of the walk of w that merged their snapshot
MergedAttempts(w) == {i \in DOMAIN log[w] : log[w][i].merged}

\* C18: a walk prints at most one report; it prints one in the step in which
\* an attempt that fetched the whole catalog has merged its snapshot, from
\* the storage as merged, which holds every OID of the catalog, so that the
\* report has a line for each of them; a walk none of whose attempts
\* succeeded prints none.
C18_ReportOnceAfterMerge ==
  [][\A w \in Walkers :
       /\ Len(printed'[w]) <= 1
       /\ Len(printed'[w]) = Cardinality({i \in DOMAIN log'[w] : log'[w][i].merged})
       /\ \A i \in DOMAIN log'[w] :
            log'[w][i].merged => log'[w][i].outcome = "ok"
       /\ (\A i \in DOMAIN log'[w] : log'[w][i].outcome # "ok") => printed'[w] = <<>>
       /\ Len(printed'[w]) > Len(printed[w]) =>
            /\ MergedAttempts(w) = {}
            /\ CatalogKeysIn(store') = CatalogOids
            /\ printed'[w][1] = print_snmp_data(store').lines
            /\ \A k \in CatalogOids :
                 \E n \in DOMAIN printed'[w][1] :
                   /\ printed'[w][1][n].label = Descriptor(k).label
                   /\ printed'[w][1][n].value = DictGet(store', k)
     ]_vars

\* the fallback attempt of a walk has merged and printed the one report
C18_Witness ==
  /\ Len(log[1]) = 2
  /\ log[1][1].outcome = "timeout"
  /\ log[1][2].merged
  /\ Len(printed[1]) = 1
  /\ Len(printed[1][1]) = Len(ALL_KNOWN) + 2


(* --------------------------------- C19 --------------------------------- *)

\* the value walk_ip records for oid from a device in reading r
Recorded(oid, r) == Decode(oid, DeviceValue(oid, r)).val

\* data holds, for every OID of the catalog, the value of reading r
SnapshotOf(data, r) ==
  /\ CatalogKeysIn(data) = CatalogOids
  /\ \A k \in CatalogOids : DictGet(data, k) = Recorded(k, r)

\* C19: with two walks interleaved at their fetches, at every suspension
\* the snapshot of each attempt holds only what its own device answered to
\* it, and the catalog entries of the storage are either none, as at the
\* start, or all those of the one attempt that merged last: the values of
\* one device, never some of one walk and some of the other. A step that
\* changes the storage is the merge of one walk and prints its report.
C19_NoMixedStore ==
  [][/\ \A w \in Walkers : \A i \in DOMAIN stack'[w] :
          \A a \in DOMAIN stack'[w][i].snmp_data :
            stack'[w][i].snmp_data[a][2]
              = Recorded(stack'[w][i].snmp_data[a][1], device'[stack'[w][i].ip])
     /\ \/ CatalogKeysIn(store') = {}
        \/ \E w \in Walkers : SnapshotOf(store', device'[TwoIPs[w]])
     /\ store' # store =>
          \E w \in Walkers :
            /\ Len(printed'[w]) = Len(printed[w]) + 1
            /\ \E i \in DOMAIN log'[w] : log'[w][i].merged /\ log'[w][i].outcome = "ok"
            /\ SnapshotOf(store', device'[TwoIPs[w]])
            /\ \A v \in Walkers \ {w} : stack'[v] = stack[v] /\ printed'[v] = printed[v]
    ]_vars

\* walker 1 waits for a fetch with part of its device's values in its
\* snapshot, while the storage holds the values walker 2 merged over those
\* walker 1 had merged before
C19_Witness ==
  /\ stack[1] # <<>>
  /\ Top(Machine(1)).idx >= 2
  /\ stack[2] # <<>>
  /\ SnapshotOf(store, device[TwoIPs[2]])
  /\ ~SnapshotOf(store, device[TwoIPs[1]])

========
